---- MODULE Spec2Model ----
(***************************************************************************)
(* Orchestration dispatcher of the agent-app scaffold                      *)
(* (backend/patterns/dynamic_orchestrator.py).                             *)
(*                                                                         *)
(* A run is one asynchronous generator: DynamicOrchestrator                *)
(* .process_with_workflow, or process_conversation called directly on a    *)
(* strategy obtained from create_orchestrator.  Every Pull is one          *)
(* __anext__ of the consumer: it resumes the generator at the yield where  *)
(* it is suspended and runs it to the next yield, to its end, or to an     *)
(* exception.  Suspension points are named after the line of the yield.    *)
(*                                                                         *)
(* A yielded string is modelled as the sequence of the pieces of its       *)
(* f-string; concatenation of strings is concatenation of sequences.       *)
(***************************************************************************)
EXTENDS Naturals, Sequences, FiniteSets, TLC

\* ---------------------------------------------------------------- bounds
MaxAgents == 3
MaxMessages == 2
MaxConcAgents == 2

\* ---------------------------------------------------------------- inputs
Runs == {1, 2}
AgentNames == {"a", "b", "c"}
Contents == {"hello", "bye"}

RECURSIVE SeqsUpTo(_, _)
SeqsUpTo(S, n) ==
    IF n = 0 THEN {<<>>}
    ELSE LET shorter == SeqsUpTo(S, n - 1)
         IN  shorter \cup {Append(s, x) : s \in {t \in shorter : Len(t) = n - 1}, x \in S}

AgentLists == SeqsUpTo(AgentNames, MaxAgents)
\* a message is the dict {"role": ..., "content": c}; only "content" is read
MessageLists == SeqsUpTo([content : Contents], MaxMessages)

\* inputs of the runs that are interleaved with one another
ConcNames == {"a", "b"}
ConcAgentLists == SeqsUpTo(ConcNames, MaxConcAgents)
ConcPatterns == {"sequential", "parallel", "hierarchical", "debate"}
ConcMessageLists ==
    {<<>>, <<[content |-> "hello"]>>, <<[content |-> "hello"], [content |-> "bye"]>>}
ConcInputs == [pattern : ConcPatterns, agents : ConcAgentLists, messages : ConcMessageLists]
OtherInputs ==
    {[pattern |-> "parallel", agents |-> <<"b", "a">>, messages |-> <<[content |-> "bye"]>>],
     [pattern |-> "sequential", agents |-> <<"a">>, messages |-> <<[content |-> "hello"]>>]}

\* ------------------------------------------------- agent_builder.py enums
\* OrchestrationPattern, by value
OrchestrationPattern ==
    {"debate", "planner_executor", "reasoner", "sequential", "parallel", "hierarchical"}

\* str() of an OrchestrationPattern member, as an f-string formats it
PatternStr(p) ==
    CASE p = "debate"           -> "OrchestrationPattern.DEBATE"
      [] p = "planner_executor" -> "OrchestrationPattern.PLANNER_EXECUTOR"
      [] p = "reasoner"         -> "OrchestrationPattern.REASONER"
      [] p = "sequential"       -> "OrchestrationPattern.SEQUENTIAL"
      [] p = "parallel"         -> "OrchestrationPattern.PARALLEL"
      [] p = "hierarchical"     -> "OrchestrationPattern.HIERARCHICAL"

\* ------------------------------------------------- registration tables
None == "None"

\* the table with an unimplemented pattern registered by mistake
orchestrators_with_debate ==
    [p \in {"debate", "sequential", "parallel", "hierarchical"} |->
        CASE p = "debate"       -> "SequentialOrchestrator"
          [] p = "sequential"   -> "SequentialOrchestrator"
          [] p = "parallel"     -> "ParallelOrchestrator"
          [] p = "hierarchical" -> "HierarchicalOrchestrator"]

\* DynamicOrchestrator.orchestrators
orchestrators ==
    [p \in {"sequential", "parallel", "hierarchical"} |->
        CASE p = "sequential"   -> "SequentialOrchestrator"
          [] p = "parallel"     -> "ParallelOrchestrator"
          [] p = "hierarchical" -> "HierarchicalOrchestrator"]

\* dict.get(key): the value, or None for a missing key
DictGet(d, k) == IF k \in DOMAIN d THEN d[k] ELSE None

\* ------------------------------------------------- strings that are yielded
\* messages[0]['content']: the first message instead of the last
LastContent_first(msgs) == <<msgs[1].content>>

\* messages[-1]['content']
LastContent(msgs) == <<msgs[Len(msgs)].content>>

SeqProgressMsg(agent_name) == <<"Agent ", agent_name, " processing...">>
SeqOutput(agent_name, current_content) ==
    <<"[", agent_name, " output]: Processed - ">> \o current_content
SeqWarningMsg(agent_name) == <<"Warning: Agent ", agent_name, " not found">>
SeqFinalMsg == <<"Sequential processing complete">>

UnsupportedMsg(p) == <<"Error: Orchestration pattern '", PatternStr(p), "' not supported">>

\* values a directory may hold for a name: an agent object, and values that
\* are not agents (None, an empty str, an empty dict)
AgentObject == "agent"
EmptyStr == ""
EmptyDict == "{}"

\* bool(handle): None and empty containers are false, every other object
\* (an agent defines neither __bool__ nor __len__) is true
Truthy(handle) == handle \notin {None, EmptyStr, EmptyDict}

\* the "if agent:" test dropped: every name is treated as found
AgentFound_always(agents, agent_name) == TRUE

\* "if not agent:": the test inverted
AgentFound_inverted(agents, agent_name) == ~Truthy(DictGet(agents, agent_name))

\* "if agent_name in self.agents:": the key is tested, not the handle
AgentFound_by_key(agents, agent_name) == agent_name \in DOMAIN agents

\* self.agents.get(agent_name) followed by "if agent:": the handle got for
\* the name (None for a missing key) is tested for truth
AgentFound(agents, agent_name) == Truthy(DictGet(agents, agent_name))

\* ------------------------------------------------- directories of the runs
\* the dict of a strategy: name -> handle. A name is missing or holds an
\* agent; the names of NoneNames may also hold None (what a registry's
\* get_agent gives for an unregistered name)
NoneNames == {"b"}
DictsOver(names) ==
    {d \in UNION {[keys -> {AgentObject, None}] : keys \in SUBSET names} :
        \A n \in DOMAIN d : d[n] = None => n \in NoneNames}
EmptyDirectory == [n \in {} |-> None]
Directories == DictsOver(AgentNames) \ {EmptyDirectory}
ConcDirectories == DictsOver(ConcNames) \ {EmptyDirectory}

\* ------------------------------------------------------------------ state
VARIABLES
    wf_pattern,   \* workflow.pattern of the run's WorkflowConfig
    wf_agents,    \* workflow.agents
    messages,     \* the caller's message list
    entry,        \* how the run was begun: "none", "dynamic", "direct"
    cls,          \* class of the strategy instance, None before creation
    agents,       \* self.agents of the strategy instance: name -> handle
    pc,           \* suspension point of the generator
    idx,          \* position of the for loop in its list (1-based)
    content,      \* current_content (Sequential) / content (others)
    results,      \* results list (Parallel, Hierarchical)
    stream,       \* strings the consumer has received, in order
    emitted,      \* strings the strategy's generator has yielded, in order
    lookups,      \* names passed to self.agents.get, in order
    invoked,      \* simulated agent invocations <<name, input>>, in order
    error,        \* exception raised out of the generator or factory
    dropped,      \* the consumer has closed or discarded the run's generator
    registry,     \* AgentRegistry.agents: name -> AgentConfig
    files,        \* the YAML files under base_path: file stem -> saved AgentConfig
    calls,        \* the files loaded by the AgentRegistry constructor and the calls
                  \* made on the registry, with what they returned, in order
    val           \* a validate_workflow call: its arguments and, once made, its result

inputs == <<wf_pattern, wf_agents, messages>>
store == <<registry, files, calls, val>>
vars == <<wf_pattern, wf_agents, messages, entry, cls, agents, pc, idx,
          content, results, stream, emitted, lookups, invoked, error,
          dropped, registry, files, calls, val>>

\* a registry in which every name of the workflows has been registered and
\* saved, and the registry over an empty directory
SavedConfig(name) == [name |-> name, instructions |-> "v1"]
EmptyRegistry == [n \in {} |-> SavedConfig(n)]
FullRegistry == [n \in AgentNames |-> SavedConfig(n)]

\* no validate_workflow call is under way
NoValidation == [workflow |-> [pattern |-> None, agents |-> <<>>, max_iterations |-> 10],
                 available_agents |-> {}, done |-> FALSE, errors |-> <<>>]

Init ==
    /\ wf_pattern \in [Runs -> OrchestrationPattern]
    /\ wf_agents \in [Runs -> AgentLists]
    /\ messages \in [Runs -> MessageLists]
    /\ wf_pattern[2] = "sequential" /\ wf_agents[2] = <<>> /\ messages[2] = <<>>
    /\ entry = [r \in Runs |-> "none"]
    /\ cls = [r \in Runs |-> None]
    /\ agents = [r \in Runs |-> EmptyDirectory]
    /\ pc = [r \in Runs |-> IF r = 1 THEN "idle" ELSE "unused"]
    /\ idx = [r \in Runs |-> 0]
    /\ content = [r \in Runs |-> <<>>]
    /\ results = [r \in Runs |-> <<>>]
    /\ stream = [r \in Runs |-> <<>>]
    /\ emitted = [r \in Runs |-> <<>>]
    /\ lookups = [r \in Runs |-> <<>>]
    /\ invoked = [r \in Runs |-> <<>>]
    /\ error = [r \in Runs |-> None]
    /\ dropped = [r \in Runs |-> FALSE]
    /\ registry \in {EmptyRegistry, FullRegistry}
    /\ files = registry
    /\ calls = <<>>
    /\ val = NoValidation

\* ------------------------------------------------- generator primitives
\* "collected.append(message)" in place of the yield: items are kept back
Forward_collected(received, message) == received

\* "yield f\"data: {message}\"": every item is framed before it is passed on
Forward_framed(received, message) == Append(received, <<"data: ">> \o message)

\* the yield of line 173 written twice: every item is delivered twice
Forward_twice(received, message) == Append(Append(received, message), message)

\* "async for message in ...: yield message" of lines 172-173: the item the
\* strategy's generator produced goes to the wrapper's consumer
Forward(received, message) == Append(received, message)

\* a yield of a strategy's process_conversation; its consumer is the caller,
\* or the async for of process_with_workflow
Yield(r, s, at) ==
    /\ emitted' = [emitted EXCEPT ![r] = Append(@, s)]
    /\ stream' = [stream EXCEPT ![r] =
                     IF entry[r] = "dynamic" THEN Forward(@, s) ELSE Append(@, s)]
    /\ pc' = [pc EXCEPT ![r] = at]

\* a yield of process_with_workflow itself (line 167)
DynYield(r, s, at) ==
    /\ stream' = [stream EXCEPT ![r] = Append(@, s)]
    /\ pc' = [pc EXCEPT ![r] = at]

Raise(r, e) ==
    /\ pc' = [pc EXCEPT ![r] = "raised"]
    /\ error' = [error EXCEPT ![r] = e]

\* the generator function returns: StopAsyncIteration at the consumer
Return(r) == pc' = [pc EXCEPT ![r] = "closed"]

\* ------------------------------------------------- SequentialOrchestrator
\* head of "for agent_name in self.workflow.agents" with k the next position,
\* run up to the yield of line 53, or past the loop to the yield of line 65
SeqLoopHead(r, k) ==
    /\ idx' = [idx EXCEPT ![r] = k]
    /\ IF k <= Len(wf_agents[r])
       THEN Yield(r, SeqProgressMsg(wf_agents[r][k]), "y53")
       ELSE Yield(r, SeqFinalMsg, "y65")

\* an early "return" for an empty agent list: nothing is yielded
SeqStart_empty_returns(r) ==
    IF messages[r] = <<>>
    THEN /\ Raise(r, "IndexError")
         /\ UNCHANGED <<idx, content, results, stream, emitted, lookups, agents, invoked, inputs>>
    ELSE /\ content' = [content EXCEPT ![r] = LastContent(messages[r])]
         /\ IF wf_agents[r] = <<>>
            THEN Return(r) /\ UNCHANGED <<idx, stream, emitted>>
            ELSE SeqLoopHead(r, 1)
         /\ UNCHANGED <<results, lookups, agents, invoked, error, inputs>>

\* first resumption: lines 48-53 (or 48-65 for an empty list)
SeqStart(r) ==
    IF messages[r] = <<>>
    THEN /\ Raise(r, "IndexError")
         /\ UNCHANGED <<idx, content, results, stream, emitted, lookups, agents, invoked, inputs>>
    ELSE /\ content' = [content EXCEPT ![r] = LastContent(messages[r])]
         /\ SeqLoopHead(r, 1)
         /\ UNCHANGED <<results, lookups, agents, invoked, error, inputs>>

\* "self.agents.pop(agent_name, None)" in place of the get: an agent that has
\* run is taken out of the directory
SeqBody_pops(r) ==
    LET agent_name == wf_agents[r][idx[r]]
        new_content == SeqOutput(agent_name, content[r])
    IN  /\ lookups' = [lookups EXCEPT ![r] = Append(@, agent_name)]
        /\ agents' = [agents EXCEPT ![r] = [n \in DOMAIN @ \ {agent_name} |-> @[n]]]
        /\ IF AgentFound(agents[r], agent_name)
           THEN /\ content' = [content EXCEPT ![r] = new_content]
                /\ invoked' = [invoked EXCEPT ![r] = Append(@, <<agent_name, content[r]>>)]
                /\ Yield(r, new_content, "y61")
           ELSE /\ Yield(r, SeqWarningMsg(agent_name), "y63")
                /\ UNCHANGED <<content, invoked>>
        /\ UNCHANGED <<idx, results, error, inputs>>

\* resumption after line 53: lines 57-63
SeqBody(r) ==
    LET agent_name == wf_agents[r][idx[r]]
        new_content == SeqOutput(agent_name, content[r])
    IN  /\ lookups' = [lookups EXCEPT ![r] = Append(@, agent_name)]
        /\ IF AgentFound(agents[r], agent_name)
           THEN /\ content' = [content EXCEPT ![r] = new_content]
                /\ invoked' = [invoked EXCEPT ![r] = Append(@, <<agent_name, content[r]>>)]
                /\ Yield(r, new_content, "y61")
           ELSE /\ Yield(r, SeqWarningMsg(agent_name), "y63")
                /\ UNCHANGED <<content, invoked>>
        /\ UNCHANGED <<idx, results, error, agents, inputs>>

\* a "break" after the warning of line 63: the pipeline stops at a missing agent
SeqResume_abort(r) ==
    /\ SeqLoopHead(r, IF pc[r] = "y63" THEN Len(wf_agents[r]) + 1 ELSE idx[r] + 1)
    /\ UNCHANGED <<content, results, lookups, agents, invoked, error, inputs>>

\* resumption after line 61 or 63: next iteration of the loop
SeqResume(r) ==
    /\ SeqLoopHead(r, idx[r] + 1)
    /\ UNCHANGED <<content, results, lookups, agents, invoked, error, inputs>>

\* resumption after line 65: the generator ends
SeqEnd(r) ==
    /\ Return(r)
    /\ UNCHANGED <<idx, content, results, stream, emitted, lookups, agents, invoked, error, inputs>>

\* one resumption of SequentialOrchestrator.process_conversation suspended at
SequentialStep(r, at) ==
    CASE at = "start"          -> SeqStart(r)
      [] at = "y53"            -> SeqBody(r)
      [] at \in {"y61", "y63"} -> SeqResume(r)
      [] at = "y65"            -> SeqEnd(r)
      [] OTHER                 -> FALSE

\* ------------------------------------------------- ParallelOrchestrator
ParProgressMsg(agent_name) == <<"Agent ", agent_name, " starting...">>
ParResult(agent_name, c) == <<"[", agent_name, "]: Processed - ">> \o c
ParAggregatingMsg == <<"Aggregating results...">>

\* results.insert(0, result)
ListAppend_front(list, x) == <<x>> \o list

\* results.append(result)
ListAppend(list, x) == Append(list, x)

\* sep.join(list)
RECURSIVE Join(_, _)
Join(sep, list) ==
    IF list = <<>> THEN <<>>
    ELSE IF Len(list) = 1 THEN list[1]
    ELSE list[1] \o <<sep>> \o Join(sep, Tail(list))

\* "if not results: yield 'No results to aggregate'" in place of the final yield
ParFinalMsg_no_results(res) ==
    IF res = <<>> THEN <<"No results to aggregate">>
    ELSE <<"Final aggregated result:\n">> \o Join("\n\n", res)

ParFinalMsg(res) == <<"Final aggregated result:\n">> \o Join("\n\n", res)

\* the yield of line 96 dropped: the loop is followed by the final yield
ParLoopHead_no_aggregating(r, k) ==
    /\ idx' = [idx EXCEPT ![r] = k]
    /\ IF k <= Len(wf_agents[r])
       THEN Yield(r, ParProgressMsg(wf_agents[r][k]), "y87")
       ELSE Yield(r, ParFinalMsg(results[r]), "y98")

\* head of the loop of line 86 with k the next position, run to the yield of
\* line 87, or past the loop to the yield of line 96
ParLoopHead(r, k) ==
    /\ idx' = [idx EXCEPT ![r] = k]
    /\ IF k <= Len(wf_agents[r])
       THEN Yield(r, ParProgressMsg(wf_agents[r][k]), "y87")
       ELSE Yield(r, ParAggregatingMsg, "y96")

\* "results" as a list shared by the runs and never emptied, instead of the
\* local "results = []" of line 83
ParStart_shared_results(r) ==
    IF messages[r] = <<>>
    THEN /\ Raise(r, "IndexError")
         /\ UNCHANGED <<idx, content, results, stream, emitted, lookups, agents, invoked, inputs>>
    ELSE /\ content' = [content EXCEPT ![r] = LastContent(messages[r])]
         /\ results' = [results EXCEPT ![r] = results[CHOOSE q \in Runs : q # r]]
         /\ ParLoopHead(r, 1)
         /\ UNCHANGED <<lookups, agents, invoked, error, inputs>>

\* first resumption: lines 80-87 (or 80-96 for an empty list)
ParStart(r) ==
    IF messages[r] = <<>>
    THEN /\ Raise(r, "IndexError")
         /\ UNCHANGED <<idx, content, results, stream, emitted, lookups, agents, invoked, inputs>>
    ELSE /\ content' = [content EXCEPT ![r] = LastContent(messages[r])]
         /\ results' = [results EXCEPT ![r] = <<>>]
         /\ ParLoopHead(r, 1)
         /\ UNCHANGED <<lookups, agents, invoked, error, inputs>>

\* the pipeline's "content = result" carried over: later agents get the result
ParBody_chained(r) ==
    LET agent_name == wf_agents[r][idx[r]]
        result == ParResult(agent_name, content[r])
    IN  /\ lookups' = [lookups EXCEPT ![r] = Append(@, agent_name)]
        /\ IF AgentFound(agents[r], agent_name)
           THEN /\ results' = [results EXCEPT ![r] = ListAppend(@, result)]
                /\ invoked' = [invoked EXCEPT ![r] = Append(@, <<agent_name, content[r]>>)]
                /\ content' = [content EXCEPT ![r] = result]
                /\ Yield(r, result, "y93")
                /\ UNCHANGED idx
           ELSE /\ ParLoopHead(r, idx[r] + 1)
                /\ UNCHANGED <<results, invoked, content>>
        /\ UNCHANGED <<error, agents, inputs>>

\* resumption after line 87: lines 89-93; an agent that is not found yields
\* nothing, so the generator runs on into the next iteration
ParBody(r) ==
    LET agent_name == wf_agents[r][idx[r]]
        result == ParResult(agent_name, content[r])
    IN  /\ lookups' = [lookups EXCEPT ![r] = Append(@, agent_name)]
        /\ IF AgentFound(agents[r], agent_name)
           THEN /\ results' = [results EXCEPT ![r] = ListAppend(@, result)]
                /\ invoked' = [invoked EXCEPT ![r] = Append(@, <<agent_name, content[r]>>)]
                /\ Yield(r, result, "y93")
                /\ UNCHANGED idx
           ELSE /\ ParLoopHead(r, idx[r] + 1)
                /\ UNCHANGED <<results, invoked>>
        /\ UNCHANGED <<content, error, agents, inputs>>

\* resumption after line 93: next iteration of the loop
ParResume(r) ==
    /\ ParLoopHead(r, idx[r] + 1)
    /\ UNCHANGED <<content, results, lookups, agents, invoked, error, inputs>>

\* resumption after line 96: lines 97-98
ParAggregate(r) ==
    /\ Yield(r, ParFinalMsg(results[r]), "y98")
    /\ UNCHANGED <<idx, content, results, lookups, agents, invoked, error, inputs>>

\* resumption after line 98: the generator ends
ParEnd(r) ==
    /\ Return(r)
    /\ UNCHANGED <<idx, content, results, stream, emitted, lookups, agents, invoked, error, inputs>>

\* one resumption of ParallelOrchestrator.process_conversation suspended at
ParallelStep(r, at) ==
    CASE at = "start" -> ParStart(r)
      [] at = "y87"   -> ParBody(r)
      [] at = "y93"   -> ParResume(r)
      [] at = "y96"   -> ParAggregate(r)
      [] at = "y98"   -> ParEnd(r)
      [] OTHER        -> FALSE

\* ------------------------------------------------- HierarchicalOrchestrator
HierNoAgentsMsg == <<"Error: No agents in workflow">>
HierAnalyzingMsg(coordinator_name) == <<"Coordinator ", coordinator_name, " analyzing task...">>
\* len(self.workflow.agents) in the plan: the coordinator counted as a worker
HierPlanMsg_counts_all(worker_agents) ==
    <<"Plan: Will delegate to ", ToString(Len(worker_agents) + 1), " worker agents">>

HierPlanMsg(worker_agents) ==
    <<"Plan: Will delegate to ", ToString(Len(worker_agents)), " worker agents">>
HierExecutingMsg(agent_name) == <<"Worker ", agent_name, " executing...">>
HierResult(agent_name) == <<"[", agent_name, "]: Completed subtask">>
HierSynthesizingMsg == <<"Coordinator synthesizing results...">>
HierFinalMsg(coordinator_name, res) ==
    <<"Coordinator ", coordinator_name, " final output:\n">> \o Join("\n", res)

\* self.workflow.agents[0]
Coordinator(list) == list[1]

\* self.workflow.agents[0:]: the coordinator is delegated to as well
Workers_all(list) == list

\* self.workflow.agents[1:]
Workers(list) == Tail(list)

\* head of the loop of line 132 with k the next position in worker_agents,
\* run to the yield of line 133, or past the loop to the yield of line 139
HierLoopHead(r, k) ==
    /\ idx' = [idx EXCEPT ![r] = k]
    /\ IF k <= Len(Workers(wf_agents[r]))
       THEN Yield(r, HierExecutingMsg(Workers(wf_agents[r])[k]), "y133")
       ELSE Yield(r, HierSynthesizingMsg, "y139")

\* first resumption: lines 113-119 or 113-125
HierStart(r) ==
    IF messages[r] = <<>>
    THEN /\ Raise(r, "IndexError")
         /\ UNCHANGED <<idx, content, results, stream, emitted, lookups, agents, invoked, inputs>>
    ELSE /\ content' = [content EXCEPT ![r] = LastContent(messages[r])]
         /\ IF wf_agents[r] = <<>>
            THEN Yield(r, HierNoAgentsMsg, "y119")
            ELSE Yield(r, HierAnalyzingMsg(Coordinator(wf_agents[r])), "y125")
         /\ UNCHANGED <<idx, results, lookups, agents, invoked, error, inputs>>

\* the "return" of line 120 dropped: line 122 indexes the empty list
HierEnd_no_return(r) ==
    /\ IF pc[r] = "y119"
       THEN Raise(r, "IndexError")
       ELSE Return(r) /\ UNCHANGED error
    /\ UNCHANGED <<idx, content, results, stream, emitted, lookups, agents, invoked, inputs>>

\* resumption after line 119 (return) or line 141 (end of the function)
HierEnd(r) ==
    /\ Return(r) /\ UNCHANGED error
    /\ UNCHANGED <<idx, content, results, stream, emitted, lookups, agents, invoked, inputs>>

\* resumption after line 125: line 128
HierPlan(r) ==
    /\ Yield(r, HierPlanMsg(Workers(wf_agents[r])), "y128")
    /\ UNCHANGED <<idx, content, results, lookups, agents, invoked, error, inputs>>

\* resumption after line 128: lines 131-133 (or 131-139 without workers)
HierDelegate(r) ==
    /\ results' = [results EXCEPT ![r] = <<>>]
    /\ HierLoopHead(r, 1)
    /\ UNCHANGED <<content, lookups, agents, invoked, error, inputs>>

\* the worker looked up as in SequentialOrchestrator: a worker that is not in
\* self.agents gets a warning in place of its subtask
HierBody_checks_directory(r) ==
    LET agent_name == Workers(wf_agents[r])[idx[r]]
        result == HierResult(agent_name)
    IN  /\ lookups' = [lookups EXCEPT ![r] = Append(@, agent_name)]
        /\ IF AgentFound(agents[r], agent_name)
           THEN /\ results' = [results EXCEPT ![r] = ListAppend(@, result)]
                /\ Yield(r, result, "y136")
           ELSE /\ Yield(r, SeqWarningMsg(agent_name), "y136")
                /\ UNCHANGED results
        /\ UNCHANGED <<idx, content, agents, invoked, error, inputs>>

\* resumption after line 133: lines 134-136
HierBody(r) ==
    LET agent_name == Workers(wf_agents[r])[idx[r]]
        result == HierResult(agent_name)
    IN  /\ results' = [results EXCEPT ![r] = ListAppend(@, result)]
        /\ Yield(r, result, "y136")
        /\ UNCHANGED <<idx, content, lookups, agents, invoked, error, inputs>>

\* resumption after line 136: next iteration of the loop
HierResume(r) ==
    /\ HierLoopHead(r, idx[r] + 1)
    /\ UNCHANGED <<content, results, lookups, agents, invoked, error, inputs>>

\* resumption after line 139: lines 140-141
HierSynthesize(r) ==
    /\ Yield(r, HierFinalMsg(Coordinator(wf_agents[r]), results[r]), "y141")
    /\ UNCHANGED <<idx, content, results, lookups, agents, invoked, error, inputs>>

\* one resumption of HierarchicalOrchestrator.process_conversation suspended at
HierarchicalStep(r, at) ==
    CASE at = "start"            -> HierStart(r)
      [] at \in {"y119", "y141"} -> HierEnd(r)
      [] at = "y125"             -> HierPlan(r)
      [] at = "y128"             -> HierDelegate(r)
      [] at = "y133"             -> HierBody(r)
      [] at = "y136"             -> HierResume(r)
      [] at = "y139"             -> HierSynthesize(r)
      [] OTHER                   -> FALSE

\* ------------------------------------------------- strategy instances
\* one strategy object kept on the DynamicOrchestrator and replaced by every
\* call, instead of one object per call
NewOrchestrator_shared(r, c) ==
    /\ cls' = [q \in Runs |-> c]
    /\ agents' = [q \in Runs |-> EmptyDirectory]

\* BaseOrchestrator.__init__ through orchestrator_class(kernel, workflow)
NewOrchestrator(r, c) ==
    /\ cls' = [cls EXCEPT ![r] = c]
    /\ agents' = [agents EXCEPT ![r] = EmptyDirectory]

\* process_conversation of the instance of class c, resumed at suspension point at
StrategyStep(r, c, at) ==
    CASE c = "SequentialOrchestrator"   -> SequentialStep(r, at)
      [] c = "ParallelOrchestrator"     -> ParallelStep(r, at)
      [] c = "HierarchicalOrchestrator" -> HierarchicalStep(r, at)
      [] OTHER                          -> FALSE

\* ------------------------------------------------- DynamicOrchestrator
\* first resumption of process_with_workflow: lines 165-168, or 165-173 up to
\* the first item of the strategy's generator
DynStart(r) ==
    LET orchestrator_class == DictGet(orchestrators, wf_pattern[r])
    IN  IF orchestrator_class = None
        THEN /\ DynYield(r, UnsupportedMsg(wf_pattern[r]), "y167")
             /\ UNCHANGED <<cls, agents, idx, content, results, emitted, lookups, invoked, error, inputs>>
        ELSE /\ NewOrchestrator(r, orchestrator_class)
             /\ StrategyStep(r, orchestrator_class, "start")

\* resumption after line 167: return
DynEnd(r) ==
    /\ Return(r)
    /\ UNCHANGED <<cls, agents, idx, content, results, stream, emitted, lookups, invoked, error, inputs>>

\* resumption after line 173: the async for asks the strategy's generator for
\* its next item and yields it unchanged; its end or exception is the wrapper's
DynForward(r) ==
    /\ StrategyStep(r, cls[r], pc[r])
    /\ UNCHANGED cls

\* ------------------------------------------------- create_orchestrator
\* the table of create_orchestrator without its HIERARCHICAL entry
factory_orchestrators_no_hierarchical ==
    [p \in {"sequential", "parallel"} |->
        CASE p = "sequential"   -> "SequentialOrchestrator"
          [] p = "parallel"     -> "ParallelOrchestrator"]

\* the table local to create_orchestrator
factory_orchestrators ==
    [p \in {"sequential", "parallel", "hierarchical"} |->
        CASE p = "sequential"   -> "SequentialOrchestrator"
          [] p = "parallel"     -> "ParallelOrchestrator"
          [] p = "hierarchical" -> "HierarchicalOrchestrator"]

\* ------------------------------------------------- operations
\* the caller obtains the generator of process_with_workflow; no line of it
\* runs before the first __anext__
ProcessWithWorkflow(r) ==
    /\ pc[r] = "idle"
    /\ entry' = [entry EXCEPT ![r] = "dynamic"]
    /\ pc' = [pc EXCEPT ![r] = "dyn_start"]
    /\ UNCHANGED <<inputs, cls, agents, idx, content, results, stream, emitted, lookups, invoked, error>>
    /\ UNCHANGED <<dropped, store>>

CreateOrchestrator(r, pattern) ==
    /\ pc[r] = "idle"
    /\ entry' = [entry EXCEPT ![r] = "direct"]
    /\ LET orchestrator_class == DictGet(factory_orchestrators, pattern)
       IN  IF orchestrator_class = None
           THEN /\ Raise(r, "ValueError")
                /\ UNCHANGED <<cls, agents>>
           ELSE /\ NewOrchestrator(r, orchestrator_class)
                /\ pc' = [pc EXCEPT ![r] = "created"]
                /\ UNCHANGED error
    /\ UNCHANGED <<inputs, idx, content, results, stream, emitted, lookups, invoked>>
    /\ UNCHANGED <<dropped, store>>

\* the owner of a strategy instance fills its agents dict before running it
PopulateAgents(r, present) ==
    /\ pc[r] = "created"
    /\ agents[r] = EmptyDirectory
    /\ agents' = [agents EXCEPT ![r] = present]
    /\ UNCHANGED <<inputs, entry, cls, pc, idx, content, results, stream, emitted, lookups, invoked, error>>
    /\ UNCHANGED <<dropped, store>>

\* the caller obtains the generator of process_conversation from the instance
ProcessConversation(r) ==
    /\ pc[r] = "created"
    /\ pc' = [pc EXCEPT ![r] = "start"]
    /\ UNCHANGED <<inputs, entry, cls, agents, idx, content, results, stream, emitted, lookups, invoked, error>>
    /\ UNCHANGED <<dropped, store>>

Suspended(r) == pc[r] \notin {"unused", "idle", "created", "closed", "raised"}

\* the consumer lets go of the generator of run r (aclose(), or the last
\* reference dropped): GeneratorExit is thrown in at the suspended yield, and
\* no process_conversation has a try/finally or except around a yield, so no
\* line of the run executes
Abandon(r) ==
    /\ Suspended(r)
    /\ ~dropped[r]
    /\ dropped' = [dropped EXCEPT ![r] = TRUE]
    /\ UNCHANGED <<inputs, entry, cls, agents, pc, idx, content, results, stream,
                   emitted, lookups, invoked, error, store>>

\* a producer task that drives the generator whether or not it is consumed
CanPull_detached(r) == Suspended(r)

\* the body of an async generator runs only inside an __anext__ of its
\* consumer: a generator that was let go of is never resumed
CanPull(r) == Suspended(r) /\ ~dropped[r]

\* one __anext__ by the consumer of run r
Pull(r) ==
    /\ CanPull(r)
    /\ IF entry[r] = "dynamic"
       THEN CASE pc[r] = "dyn_start" -> DynStart(r)
              [] pc[r] = "y167"      -> DynEnd(r)
              [] OTHER               -> DynForward(r)
       ELSE /\ StrategyStep(r, cls[r], pc[r])
            /\ UNCHANGED cls
    /\ UNCHANGED <<entry, dropped, store>>

Next ==
    \E r \in Runs :
        \/ ProcessWithWorkflow(r)
        \/ CreateOrchestrator(r, wf_pattern[r])
        \/ \E present \in Directories : PopulateAgents(r, present)
        \/ ProcessConversation(r)
        \/ Pull(r)
        \/ Abandon(r)

Spec == Init /\ [][Next]_vars

\* ------------------------------------------------- two runs, interleaved
\* two runs on one DynamicOrchestrator (or on strategies of one factory); the
\* second run has the inputs of the first or one of two other workflows
InitConc ==
    /\ \E in1 \in ConcInputs : \E in2 \in {in1} \cup OtherInputs :
          /\ wf_pattern = [r \in Runs |-> IF r = 1 THEN in1.pattern ELSE in2.pattern]
          /\ wf_agents = [r \in Runs |-> IF r = 1 THEN in1.agents ELSE in2.agents]
          /\ messages = [r \in Runs |-> IF r = 1 THEN in1.messages ELSE in2.messages]
    /\ entry = [r \in Runs |-> "none"]
    /\ cls = [r \in Runs |-> None]
    /\ agents = [r \in Runs |-> EmptyDirectory]
    /\ pc = [r \in Runs |-> "idle"]
    /\ idx = [r \in Runs |-> 0]
    /\ content = [r \in Runs |-> <<>>]
    /\ results = [r \in Runs |-> <<>>]
    /\ stream = [r \in Runs |-> <<>>]
    /\ emitted = [r \in Runs |-> <<>>]
    /\ lookups = [r \in Runs |-> <<>>]
    /\ invoked = [r \in Runs |-> <<>>]
    /\ error = [r \in Runs |-> None]
    /\ dropped = [r \in Runs |-> FALSE]
    /\ registry = EmptyRegistry
    /\ files = EmptyRegistry
    /\ calls = <<>>
    /\ val = NoValidation

NextConc ==
    \E r \in Runs :
        \/ ProcessWithWorkflow(r)
        \/ CreateOrchestrator(r, wf_pattern[r])
        \/ \E present \in ConcDirectories : PopulateAgents(r, present)
        \/ ProcessConversation(r)
        \/ Pull(r)
        \/ Abandon(r)

SpecConc == InitConc /\ [][NextConc]_vars

\* ------------------------------------------------- no orchestration run
\* the orchestration part of the state when no run is ever made
NoRuns ==
    /\ wf_pattern = [r \in Runs |-> "sequential"]
    /\ wf_agents = [r \in Runs |-> <<>>]
    /\ messages = [r \in Runs |-> <<>>]
    /\ entry = [r \in Runs |-> "none"]
    /\ cls = [r \in Runs |-> None]
    /\ agents = [r \in Runs |-> EmptyDirectory]
    /\ pc = [r \in Runs |-> "unused"]
    /\ idx = [r \in Runs |-> 0]
    /\ content = [r \in Runs |-> <<>>]
    /\ results = [r \in Runs |-> <<>>]
    /\ stream = [r \in Runs |-> <<>>]
    /\ emitted = [r \in Runs |-> <<>>]
    /\ lookups = [r \in Runs |-> <<>>]
    /\ invoked = [r \in Runs |-> <<>>]
    /\ error = [r \in Runs |-> None]
    /\ dropped = [r \in Runs |-> FALSE]

runs == <<wf_pattern, wf_agents, messages, entry, cls, agents, pc, idx,
          content, results, stream, emitted, lookups, invoked, error, dropped>>

\* ------------------------------------------------- WorkflowValidator
\* a pattern value is a str or a member of the enum OrchestrationPattern
StrValue(v) == [type |-> "str", value |-> v]
Member(v) == [type |-> "OrchestrationPattern", value |-> v]
PatternArguments == {StrValue(v) : v \in OrchestrationPattern}
                        \cup {Member(v) : v \in OrchestrationPattern}
MaxIterationsValues == {0, 1, 10}

\* WorkflowConfig.__post_init__: a str pattern becomes the enum member
PostInit(pattern) == IF pattern.type = "str" THEN Member(pattern.value) ELSE pattern

\* WorkflowConfig(name, description, pattern, agents, max_iterations=...)
WorkflowConfig(pattern, agent_list, max_iterations) ==
    [pattern |-> PostInit(pattern), agents |-> agent_list, max_iterations |-> max_iterations]

\* "==" of two pattern values: OrchestrationPattern derives from Enum alone,
\* so a member equals only itself and never a str
PyEq(x, y) == x.type = y.type /\ x.value = y.value

NoAgentsError == <<"Workflow must have at least one agent">>
AgentNotFoundError(agent_name) == <<"Agent '", agent_name, "' not found in registry">>
MaxIterationsError == <<"max_iterations must be at least 1">>
HierarchicalAgentsError ==
    <<"Hierarchical pattern requires at least 2 agents (1 coordinator + workers)">>

\* the loop of lines 174-176 over the agent list
RECURSIVE NotFoundErrors(_, _)
NotFoundErrors(agent_list, available_agents) ==
    IF agent_list = <<>> THEN <<>>
    ELSE (IF Head(agent_list) \notin available_agents
          THEN <<AgentNotFoundError(Head(agent_list))>> ELSE <<>>)
         \o NotFoundErrors(Tail(agent_list), available_agents)

\* WorkflowValidator.validate_workflow: the list of errors it returns
validate_workflow(workflow, available_agents) ==
    (IF workflow.agents = <<>> THEN <<NoAgentsError>> ELSE <<>>)
    \o NotFoundErrors(workflow.agents, available_agents)
    \o (IF workflow.max_iterations < 1 THEN <<MaxIterationsError>> ELSE <<>>)
    \o (IF PyEq(workflow.pattern, StrValue("hierarchical"))
        THEN (IF Len(workflow.agents) < 2 THEN <<HierarchicalAgentsError>> ELSE <<>>)
        ELSE <<>>)

\* a workflow is built and handed to the validator with a list of agent names
InitValidate ==
    /\ NoRuns
    /\ registry = EmptyRegistry /\ files = EmptyRegistry /\ calls = <<>>
    /\ \E pattern \in PatternArguments, agent_list \in ConcAgentLists,
          max_iterations \in MaxIterationsValues, available_agents \in SUBSET ConcNames :
          val = [workflow |-> WorkflowConfig(pattern, agent_list, max_iterations),
                 available_agents |-> available_agents, done |-> FALSE, errors |-> <<>>]

ValidateWorkflow ==
    /\ ~val.done
    /\ val' = [val EXCEPT !.done = TRUE,
                          !.errors = validate_workflow(val.workflow, val.available_agents)]
    /\ UNCHANGED <<runs, registry, files, calls>>

NextValidate == ValidateWorkflow

SpecValidate == InitValidate /\ [][NextValidate]_vars

\* ------------------------------------------------- AgentRegistry
MaxCalls == 3
RegistryNames == {"a", "b"}
AgentConfigs == [name : RegistryNames, instructions : {"v1", "v2"}]

\* None where an AgentConfig is expected (Optional[AgentConfig])
NoAgent == [name |-> None, instructions |-> None]

\* a call of the registry as it is written to the log
Call(op, name, agent, save, ret) ==
    [op |-> op, name |-> name, agent |-> agent, save |-> save, ret |-> ret]

\* d[k] = v on a dict
DictSet(d, k, v) == [x \in DOMAIN d \cup {k} |-> IF x = k THEN v ELSE d[x]]

\* self.agents.get(name): the AgentConfig, or None
AgentsGet(d, k) == IF k \in DOMAIN d THEN d[k] ELSE NoAgent

\* del d[k]
DictDel(d, k) == [x \in DOMAIN d \ {k} |-> d[x]]

\* the content of a *.yaml file that AgentConfig.from_yaml raises on
BadYaml == [name |-> None, instructions |-> "not an agent"]

\* the *.yaml files that base_path may hold when the registry is constructed,
\* by file stem: none (the directory is missing or empty), files written by
\* save_agent, files of an agent under another name, files that do not load
YamlFiles == AgentConfigs \cup {BadYaml}
BaseDirs == UNION {[stems -> YamlFiles] : stems \in SUBSET RegistryNames}

\* the orders in which base_path.glob("*.yaml") may give the files of dir
GlobOrders(dir) ==
    {order \in [1..Cardinality(DOMAIN dir) -> DOMAIN dir] :
        \A i, j \in DOMAIN order : order[i] = order[j] => i = j}

\* AgentRegistry._load_agents: every file that loads is registered under the
\* name it holds, a later file over an earlier one of the same agent name; a
\* file that does not load is logged and skipped
RECURSIVE _load_agents(_, _)
_load_agents(dir, order) ==
    IF order = <<>> THEN EmptyRegistry
    ELSE LET loaded == _load_agents(dir, SubSeq(order, 1, Len(order) - 1))
             yaml_file == dir[order[Len(order)]]
         IN  IF yaml_file = BadYaml THEN loaded
             ELSE DictSet(loaded, yaml_file.name, yaml_file)

\* the iterations of the loop of _load_agents as they are written to the log:
\* the stem of the file and what it holds
LoadLog(dir, order) ==
    [k \in 1..Len(order) |->
        Call("_load_agents", order[k], dir[order[k]], FALSE, NoAgent)]

\* the calls made on the registry since it was constructed
NumCalls == Cardinality({k \in 1..Len(calls) : calls[k].op # "_load_agents"})

\* the body of save_agent: the configuration is written to
\* base_path/<name>.yaml, over a file of that name if there is one
WriteYaml(agent) == files' = DictSet(files, agent.name, agent)

\* delete_agent that leaves the YAML file of the agent in place
delete_agent_keeps_file(name) ==
    /\ NumCalls < MaxCalls
    /\ IF name \in DOMAIN registry
       THEN /\ registry' = DictDel(registry, name)
            /\ UNCHANGED files
            /\ calls' = Append(calls, Call("delete_agent", name, NoAgent, FALSE, TRUE))
       ELSE /\ UNCHANGED <<registry, files>>
            /\ calls' = Append(calls, Call("delete_agent", name, NoAgent, FALSE, FALSE))
    /\ UNCHANGED <<runs, val>>

\* AgentRegistry.register_agent(agent, save)
register_agent(agent, save) ==
    /\ NumCalls < MaxCalls
    /\ registry' = DictSet(registry, agent.name, agent)
    /\ IF save THEN WriteYaml(agent) ELSE UNCHANGED files
    /\ calls' = Append(calls, Call("register_agent", agent.name, agent, save, NoAgent))
    /\ UNCHANGED <<runs, val>>

\* AgentRegistry.save_agent(agent) called on its own: the file is written,
\* self.agents is not touched
save_agent(agent) ==
    /\ NumCalls < MaxCalls
    /\ WriteYaml(agent)
    /\ calls' = Append(calls, Call("save_agent", agent.name, agent, TRUE, NoAgent))
    /\ UNCHANGED <<runs, registry, val>>

\* AgentRegistry.get_agent(name)
get_agent(name) ==
    /\ NumCalls < MaxCalls
    /\ calls' = Append(calls, Call("get_agent", name, NoAgent, FALSE, AgentsGet(registry, name)))
    /\ UNCHANGED <<runs, registry, files, val>>

\* AgentRegistry.delete_agent(name)
delete_agent(name) ==
    /\ NumCalls < MaxCalls
    /\ IF name \in DOMAIN registry
       THEN /\ registry' = DictDel(registry, name)
            /\ files' = IF name \in DOMAIN files THEN DictDel(files, name) ELSE files
            /\ calls' = Append(calls, Call("delete_agent", name, NoAgent, FALSE, TRUE))
       ELSE /\ UNCHANGED <<registry, files>>
            /\ calls' = Append(calls, Call("delete_agent", name, NoAgent, FALSE, FALSE))
    /\ UNCHANGED <<runs, val>>

\* AgentRegistry(base_path): self.agents = {} and then _load_agents() over
\* the files that base_path holds
InitRegistry ==
    /\ NoRuns
    /\ \E dir \in BaseDirs : \E order \in GlobOrders(dir) :
          /\ files = dir
          /\ registry = _load_agents(dir, order)
          /\ calls = LoadLog(dir, order)
    /\ val = NoValidation

NextRegistry ==
    \/ \E agent \in AgentConfigs, save \in BOOLEAN : register_agent(agent, save)
    \/ \E agent \in AgentConfigs : save_agent(agent)
    \/ \E name \in RegistryNames : get_agent(name)
    \/ \E name \in RegistryNames : delete_agent(name)

SpecRegistry == InitRegistry /\ [][NextRegistry]_vars

\* ========================================================================
\* Vocabulary of the properties
\* ========================================================================
\* kind of a yielded string, read off its leading literal text
Kind(e) ==
    CASE e[1] \in {"Error: Orchestration pattern '", "Error: No agents in workflow"} -> "Error"
      [] e[1] = "Warning: Agent " -> "Warning"
      [] e[1] = "[" -> "Partial"
      [] e[1] \in {"Sequential processing complete", "Final aggregated result:\n"} -> "Final"
      [] e[1] = "Coordinator " /\ Len(e) >= 3 /\ e[3] = " final output:\n" -> "Final"
      [] OTHER -> "Progress"

IsError(e) == Kind(e) = "Error"
IsWarning(e) == Kind(e) = "Warning"
IsPartial(e) == Kind(e) = "Partial"
IsFinal(e) == Kind(e) = "Final"
IsProgress(e) == Kind(e) = "Progress"
IsAggregating(e) == e = <<"Aggregating results...">>

\* the agent a Progress, Partial or Warning is about
AgentOf(e) == e[2]

Last(s) == s[Len(s)]
Mentions(e, text) == \E k \in 1..Len(e) : e[k] = text

Implemented == {"sequential", "parallel", "hierarchical"}
IsSequential(r) == cls[r] = "SequentialOrchestrator"
IsParallel(r) == cls[r] = "ParallelOrchestrator"
IsHierarchical(r) == cls[r] = "HierarchicalOrchestrator"

HasInput(r) == messages[r] # <<>>
InputOf(r) == <<messages[r][Len(messages[r])].content>>
\* the names for which a directory holds an agent
Held(directory) == {n \in DOMAIN directory : directory[n] = AgentObject}
Present(r, k) == wf_agents[r][k] \in Held(agents[r])
AllPresent(r) == \A k \in 1..Len(wf_agents[r]) : Present(r, k)

\* the generator has yielded its last item (it is suspended at its last
\* yield, or the consumer has seen it end)
SeqDone(r) == IsSequential(r) /\ pc[r] \in {"y65", "closed"}
ParDone(r) == IsParallel(r) /\ pc[r] \in {"y98", "closed"}

\* the listed agents that are in the directory, in list order
RECURSIVE PresentAgents(_, _)
PresentAgents(list, directory) ==
    IF list = <<>> THEN <<>>
    ELSE (IF Head(list) \in directory THEN <<Head(list)>> ELSE <<>>)
         \o PresentAgents(Tail(list), directory)

\* ========================================================================
\* Properties
\* ========================================================================

\* C1: a workflow whose pattern is not sequential, parallel or hierarchical,
\* run through process_with_workflow, yields exactly one Error event that
\* names the pattern and then ends: no strategy is created, nothing else is
\* emitted, no exception is raised and the agent directory is never queried.
UnsupportedPatternYieldsOneError ==
    \A r \in Runs :
        (entry[r] = "dynamic" /\ wf_pattern[r] \notin Implemented) =>
            /\ cls[r] = None
            /\ lookups[r] = <<>> /\ invoked[r] = <<>>
            /\ pc[r] \in {"dyn_start", "y167", "closed"}
            /\ (pc[r] = "dyn_start" => stream[r] = <<>>)
            /\ (pc[r] \in {"y167", "closed"} =>
                    /\ Len(stream[r]) = 1
                    /\ IsError(stream[r][1])
                    /\ Mentions(stream[r][1], PatternStr(wf_pattern[r])))

UnsupportedPatternRunEnded ==
    \E r \in Runs :
        /\ entry[r] = "dynamic" /\ wf_pattern[r] = "debate"
        /\ wf_agents[r] # <<>>
        /\ pc[r] = "closed" /\ Len(stream[r]) = 1

\* C2: a Sequential run with an input whose N agents are all in the
\* directory does not fail, and its complete stream has exactly N Partial
\* events, the k-th about the k-th agent of the list, and exactly one Final
\* event, which is the last item.
SequentialAllPresentPartialsThenFinal ==
    \A r \in Runs :
        (IsSequential(r) /\ HasInput(r) /\ AllPresent(r)) =>
            /\ pc[r] # "raised"
            /\ SeqDone(r) =>
                LET partials == SelectSeq(stream[r], IsPartial)
                IN  /\ Len(partials) = Len(wf_agents[r])
                    /\ \A k \in 1..Len(partials) : AgentOf(partials[k]) = wf_agents[r][k]
                    /\ Len(SelectSeq(stream[r], IsFinal)) = 1
                    /\ IsFinal(Last(stream[r]))
                    /\ Len(SelectSeq(stream[r], IsWarning)) = 0

SequentialAllPresentRunEnded ==
    \E r \in Runs :
        /\ IsSequential(r) /\ AllPresent(r) /\ pc[r] = "closed"
        /\ wf_agents[r] = <<"a", "b", "c">>
        /\ Len(SelectSeq(stream[r], IsPartial)) = 3

\* C3: in a Sequential run the invoked agents are the present agents among
\* those reached so far, in list order; the first is invoked with the last
\* message's content and each later one with the Partial the previous
\* invocation produced; each Partial carries the invoked agent's name and,
\* after its header, the input the agent was given.
SequentialChainsOutputs ==
    \A r \in Runs :
        IsSequential(r) =>
            LET partials == SelectSeq(stream[r], IsPartial)
            IN  /\ Len(invoked[r]) = Len(partials)
                /\ \A k \in 1..Len(invoked[r]) :
                      /\ invoked[r][k][1] = PresentAgents(lookups[r], Held(agents[r]))[k]
                      /\ invoked[r][k][2] =
                            (IF k = 1 THEN InputOf(r) ELSE partials[k - 1])
                      /\ AgentOf(partials[k]) = invoked[r][k][1]
                      /\ SubSeq(partials[k], 4, Len(partials[k])) = invoked[r][k][2]
                /\ (\A k \in 1..Len(lookups[r]) : lookups[r][k] = wf_agents[r][k])

SequentialChainedThroughAbsentAgent ==
    \E r \in Runs :
        /\ IsSequential(r) /\ pc[r] = "closed"
        /\ Len(messages[r]) = 2 /\ messages[r][1] # messages[r][2]
        /\ wf_agents[r] = <<"a", "b", "c">> /\ Held(agents[r]) = {"a", "c"}
        /\ Len(invoked[r]) = 2
        /\ invoked[r][2] = <<"c", <<"[", "a", " output]: Processed - ", messages[r][2].content>> >>

\* C4: in a Sequential run, resuming at an agent that is not in the directory
\* yields a Warning naming that agent, invokes nothing and leaves the running
\* content as it was; the pipeline is not aborted: a run with an input never
\* fails, and when it is complete every listed agent has been looked up and
\* announced, the Warnings are those of the absent agents in list order, and
\* the single Final event is the last item.
SeqMissingAgentStep(r) ==
    (IsSequential(r) /\ pc[r] = "y53" /\ ~Present(r, idx[r]) /\ pc'[r] # pc[r]) =>
        /\ pc'[r] = "y63"
        /\ content'[r] = content[r]
        /\ invoked'[r] = invoked[r]
        /\ Len(stream'[r]) = Len(stream[r]) + 1
        /\ IsWarning(Last(stream'[r]))
        /\ AgentOf(Last(stream'[r])) = wf_agents[r][idx[r]]

SeqNotAborted(r) ==
    (IsSequential(r) /\ HasInput(r)) =>
        /\ pc[r] # "raised"
        /\ SeqDone(r) =>
            LET warnings == SelectSeq(stream[r], IsWarning)
                absent == PresentAgents(wf_agents[r], AgentNames \ Held(agents[r]))
            IN  /\ lookups[r] = wf_agents[r]
                /\ Len(SelectSeq(stream[r], IsProgress)) = Len(wf_agents[r])
                /\ Len(warnings) = Len(absent)
                /\ \A k \in 1..Len(warnings) : AgentOf(warnings[k]) = absent[k]
                /\ Len(SelectSeq(stream[r], IsPartial)) = Len(wf_agents[r]) - Len(absent)
                /\ Len(SelectSeq(stream[r], IsFinal)) = 1
                /\ IsFinal(Last(stream[r]))

SequentialMissingAgentWarnsAndContinues ==
    /\ [](\A r \in Runs : SeqNotAborted(r))
    /\ [][\A r \in Runs : SeqMissingAgentStep(r)]_vars

SequentialContinuedAfterMissingAgent ==
    \E r \in Runs :
        /\ IsSequential(r) /\ pc[r] = "closed"
        /\ wf_agents[r] = <<"a", "b", "c">> /\ Held(agents[r]) = {"a", "c"}
        /\ \E k \in 1..Len(stream[r]) :
              /\ IsWarning(stream[r][k]) /\ AgentOf(stream[r][k]) = "b"
              /\ \E j \in (k + 1)..Len(stream[r]) :
                    IsPartial(stream[r][j]) /\ AgentOf(stream[r][j]) = "c"

\* C5: a Sequential run with an input and an empty agent list does not fail;
\* nothing is yielded before the Final completion event, which is the only
\* item of the complete stream, and no agent is looked up.
SequentialEmptyListOnlyFinal ==
    \A r \in Runs :
        (IsSequential(r) /\ HasInput(r) /\ wf_agents[r] = <<>>) =>
            /\ pc[r] \in {"created", "start", "y65", "closed"}
            /\ lookups[r] = <<>>
            /\ (pc[r] \in {"created", "start"} => stream[r] = <<>>)
            /\ (pc[r] \in {"y65", "closed"} =>
                    Len(stream[r]) = 1 /\ IsFinal(stream[r][1]))

SequentialEmptyListRunEnded ==
    \E r \in Runs :
        /\ IsSequential(r) /\ wf_agents[r] = <<>> /\ pc[r] = "closed"
        /\ Len(stream[r]) = 1

\* C6: in a complete Parallel run whose agents are all in the directory, the
\* Final event is the aggregate header followed by the agents' results (the
\* Partial events, one per agent) joined by a blank line in the order of the
\* workflow's agent list.  Invocations are made one after the other in list
\* order, so this is their only completion order.
RECURSIVE JoinedFrom(_, _, _)
JoinedFrom(list, k, sep) ==
    IF k > Len(list) THEN <<>>
    ELSE IF k = Len(list) THEN list[k]
    ELSE list[k] \o <<sep>> \o JoinedFrom(list, k + 1, sep)

ParallelAggregatesInListOrder ==
    \A r \in Runs :
        (ParDone(r) /\ AllPresent(r)) =>
            LET partials == SelectSeq(stream[r], IsPartial)
            IN  /\ Len(partials) = Len(wf_agents[r])
                /\ \A k \in 1..Len(partials) : AgentOf(partials[k]) = wf_agents[r][k]
                /\ Last(stream[r]) =
                      <<"Final aggregated result:\n">> \o JoinedFrom(partials, 1, "\n\n")

ParallelThreeAgentsAggregated ==
    \E r \in Runs :
        /\ IsParallel(r) /\ pc[r] = "closed" /\ AllPresent(r)
        /\ wf_agents[r] = <<"c", "a", "b">>
        /\ Len(results[r]) = 3

\* C7: in a Parallel run every invocation is given the last message's
\* content, whatever was invoked before it, and the Partial it produces is
\* the agent's header followed by that content.
ParallelSameInputForAll ==
    \A r \in Runs :
        IsParallel(r) =>
            LET partials == SelectSeq(stream[r], IsPartial)
            IN  /\ Len(invoked[r]) = Len(partials)
                /\ \A k \in 1..Len(invoked[r]) :
                      /\ invoked[r][k][2] = InputOf(r)
                      /\ AgentOf(partials[k]) = invoked[r][k][1]
                      /\ SubSeq(partials[k], 4, Len(partials[k])) = InputOf(r)

ParallelInvokedSeveral ==
    \E r \in Runs :
        /\ IsParallel(r) /\ pc[r] = "closed"
        /\ Len(messages[r]) = 2 /\ messages[r][1] # messages[r][2]
        /\ Len(invoked[r]) = 3
        /\ invoked[r][1][1] # invoked[r][3][1]

\* C8: in a Parallel run an agent that is not in the directory gets its
\* 'starting' Progress and nothing else: no Warning is ever yielded, the
\* results collection holds exactly the Partial events, which are those of
\* the present agents among the ones reached, in list order; the run goes on
\* to every listed agent and its aggregate joins only those results.
IsStarting(e) == Len(e) = 3 /\ e[1] = "Agent " /\ e[3] = " starting..."

ParallelMissingAgentSilentlySkipped ==
    \A r \in Runs :
        IsParallel(r) =>
            LET partials == SelectSeq(stream[r], IsPartial)
                found == PresentAgents(lookups[r], Held(agents[r]))
            IN  /\ HasInput(r) => pc[r] # "raised"
                /\ Len(SelectSeq(stream[r], IsWarning)) = 0
                /\ results[r] = partials
                /\ Len(partials) = Len(found)
                /\ \A k \in 1..Len(partials) : AgentOf(partials[k]) = found[k]
                /\ ParDone(r) =>
                      /\ lookups[r] = wf_agents[r]
                      /\ Len(SelectSeq(stream[r], IsStarting)) = Len(wf_agents[r])
                      /\ Last(stream[r]) =
                            <<"Final aggregated result:\n">> \o JoinedFrom(partials, 1, "\n\n")

ParallelSkippedMissingAgent ==
    \E r \in Runs :
        /\ IsParallel(r) /\ pc[r] = "closed"
        /\ wf_agents[r] = <<"a", "b", "c">> /\ Held(agents[r]) = {"a", "c"}
        /\ Len(results[r]) = 2
        /\ Len(stream[r]) = 7

\* C9: in a Parallel run 'Aggregating results...' is not yielded while the
\* agents are being worked through; the complete stream has it exactly once,
\* as the item before the last, after one 'starting' Progress per listed
\* agent in list order and their Partial events, and the last item is the
\* only Final event.
ParallelAggregatingOnceBeforeFinal ==
    \A r \in Runs :
        IsParallel(r) =>
            LET n == Len(stream[r])
                starts == SelectSeq(stream[r], IsStarting)
            IN  /\ HasInput(r) => pc[r] # "raised"
                /\ pc[r] \in {"y87", "y93"} =>
                      /\ Len(SelectSeq(stream[r], IsAggregating)) = 0
                      /\ Len(SelectSeq(stream[r], IsFinal)) = 0
                /\ pc[r] = "y96" =>
                      /\ IsAggregating(stream[r][n])
                      /\ Len(SelectSeq(stream[r], IsFinal)) = 0
                /\ ParDone(r) =>
                      /\ n >= 2
                      /\ IsFinal(stream[r][n])
                      /\ IsAggregating(stream[r][n - 1])
                      /\ Len(SelectSeq(stream[r], IsAggregating)) = 1
                      /\ Len(SelectSeq(stream[r], IsFinal)) = 1
                      /\ \A k \in 1..(n - 2) :
                            IsStarting(stream[r][k]) \/ IsPartial(stream[r][k])
                      /\ Len(starts) = Len(wf_agents[r])
                      /\ \A k \in 1..Len(starts) : AgentOf(starts[k]) = wf_agents[r][k]

ParallelAggregatedAfterAllAgents ==
    \E r \in Runs :
        /\ IsParallel(r) /\ pc[r] = "closed"
        /\ Len(wf_agents[r]) = 3 /\ Held(agents[r]) = {"b"}
        /\ Len(stream[r]) >= 6
        /\ IsAggregating(stream[r][Len(stream[r]) - 1])

\* C10: a Hierarchical run with an input and an empty agent list does not
\* fail; nothing is yielded before the 'No agents in workflow' Error event,
\* which is the only item of the complete stream: no Progress, Partial or
\* Final event, no coordinator step, no worker result.
HierarchicalEmptyListOneError ==
    \A r \in Runs :
        (IsHierarchical(r) /\ HasInput(r) /\ wf_agents[r] = <<>>) =>
            /\ pc[r] \in {"created", "start", "y119", "closed"}
            /\ lookups[r] = <<>> /\ invoked[r] = <<>> /\ results[r] = <<>>
            /\ (pc[r] \in {"created", "start"} => stream[r] = <<>>)
            /\ (pc[r] \in {"y119", "closed"} =>
                    /\ Len(stream[r]) = 1
                    /\ IsError(stream[r][1])
                    /\ stream[r][1] = <<"Error: No agents in workflow">>)

HierarchicalEmptyListRunEnded ==
    \E r \in Runs :
        /\ IsHierarchical(r) /\ wf_agents[r] = <<>> /\ pc[r] = "closed"
        /\ Len(stream[r]) = 1

\* C11: in a complete Hierarchical run over a non-empty agent list the
\* completion notices are one per worker, the k-th about the (k+1)-th name of
\* the list, and the Final event is 'Coordinator <first name> final output:'
\* followed by those notices, one per line, in that order.
HierDone(r) == IsHierarchical(r) /\ pc[r] \in {"y141", "closed"}

HierarchicalFinalIsCoordinatorPlusNotices ==
    \A r \in Runs :
        (HierDone(r) /\ wf_agents[r] # <<>>) =>
            LET notices == SelectSeq(stream[r], IsPartial)
            IN  /\ Len(notices) = Len(wf_agents[r]) - 1
                /\ \A k \in 1..Len(notices) :
                      notices[k] = <<"[", wf_agents[r][k + 1], "]: Completed subtask">>
                /\ Last(stream[r]) =
                      <<"Coordinator ", wf_agents[r][1], " final output:\n">>
                          \o JoinedFrom(notices, 1, "\n")

HierarchicalTwoWorkersSynthesized ==
    \E r \in Runs :
        /\ IsHierarchical(r) /\ pc[r] = "closed"
        /\ wf_agents[r] = <<"c", "a", "b">>
        /\ Mentions(Last(stream[r]), "c")
        /\ Mentions(Last(stream[r]), "a") /\ Mentions(Last(stream[r]), "b")

\* C12: in a Hierarchical run over a list of a coordinator and W workers the
\* k-th item of the stream is: for k = 1 the coordinator's 'analyzing'
\* Progress, for k = 2 the plan stating W, for k = 3 .. 2W+2 alternately the
\* 'executing' Progress of the next worker and that worker's Partial, for
\* k = 2W+3 the 'synthesizing' Progress and for k = 2W+4 the Final event;
\* the complete stream has exactly 2W+4 items.
HierItemInPlace(r, k) ==
    LET e == stream[r][k]
        W == Len(wf_agents[r]) - 1
    IN  CASE k = 1 -> e = <<"Coordinator ", wf_agents[r][1], " analyzing task...">>
          [] k = 2 -> /\ IsProgress(e)
                      /\ e = <<"Plan: Will delegate to ", ToString(W), " worker agents">>
          [] k >= 3 /\ k <= 2 * W + 2 /\ k % 2 = 1 ->
                      e = <<"Worker ", wf_agents[r][(k + 1) \div 2], " executing...">>
          [] k >= 3 /\ k <= 2 * W + 2 /\ k % 2 = 0 ->
                      IsPartial(e) /\ AgentOf(e) = wf_agents[r][k \div 2]
          [] k = 2 * W + 3 -> e = <<"Coordinator synthesizing results...">>
          [] k = 2 * W + 4 -> IsFinal(e)
          [] OTHER -> FALSE

HierarchicalEventOrder ==
    \A r \in Runs :
        (IsHierarchical(r) /\ wf_agents[r] # <<>>) =>
            /\ HasInput(r) => pc[r] # "raised"
            /\ \A k \in 1..Len(stream[r]) : HierItemInPlace(r, k)
            /\ HierDone(r) => Len(stream[r]) = 2 * (Len(wf_agents[r]) - 1) + 4

HierarchicalTwoWorkersEightEvents ==
    \E r \in Runs :
        /\ IsHierarchical(r) /\ pc[r] = "closed"
        /\ Len(wf_agents[r]) = 3 /\ wf_agents[r][2] # wf_agents[r][3]
        /\ Len(stream[r]) = 8

\* C13: in a complete Hierarchical run every worker that is not in the
\* directory has been looked up and has a Warning event naming it in the
\* stream, and the run has gone on to its Final event.
HierarchicalMissingWorkerWarned ==
    \A r \in Runs :
        HierDone(r) =>
            \A k \in 2..Len(wf_agents[r]) :
                ~Present(r, k) =>
                    /\ \E j \in 1..Len(lookups[r]) : lookups[r][j] = wf_agents[r][k]
                    /\ \E j \in 1..Len(stream[r]) :
                          IsWarning(stream[r][j]) /\ AgentOf(stream[r][j]) = wf_agents[r][k]
                    /\ IsFinal(Last(stream[r]))

\* C14: no run begun through process_with_workflow ends in an exception,
\* whatever the pattern, the agent list and the message list.
NoFailureEscapesDispatcher ==
    \A r \in Runs :
        entry[r] = "dynamic" => (pc[r] # "raised" /\ error[r] = None)

\* C15: every run whose generator has ended has ended by closing its stream,
\* and the closed stream holds exactly one terminal event (Final, or Error for
\* an unsupported pattern or an empty hierarchical workflow), as its last item.
IsTerminal(e) == IsFinal(e) \/ IsError(e)
HasGenerator(r) == entry[r] = "dynamic" \/ (entry[r] = "direct" /\ cls[r] # None)

EveryRunEndsWellFormed ==
    \A r \in Runs :
        (HasGenerator(r) /\ pc[r] \in {"closed", "raised"}) =>
            /\ pc[r] = "closed"
            /\ Len(SelectSeq(stream[r], IsTerminal)) = 1
            /\ IsTerminal(Last(stream[r]))

\* C17: in a run through process_with_workflow, at every moment the consumer
\* holds exactly the strings the strategy has yielded so far, unchanged and
\* in the same order (nothing is kept back for a later replay), and the
\* strategy has done no work ahead of it: every agent that has been looked up
\* was announced by a Progress event the consumer already holds, and no agent
\* is invoked without having been looked up.
IsAnnouncement(e) == Len(e) = 3 /\ e[1] = "Agent "

DispatcherIsPassThrough ==
    \A r \in Runs :
        (entry[r] = "dynamic" /\ cls[r] # None) =>
            LET announced == SelectSeq(stream[r], IsAnnouncement)
            IN  /\ stream[r] = emitted[r]
                /\ Len(lookups[r]) <= Len(announced)
                /\ Len(announced) <= Len(lookups[r]) + 1
                /\ \A k \in 1..Len(lookups[r]) : lookups[r][k] = AgentOf(announced[k])
                /\ Len(invoked[r]) <= Len(lookups[r])

DispatcherForwardedMidRun ==
    \E r \in Runs :
        /\ entry[r] = "dynamic" /\ IsSequential(r)
        /\ Len(wf_agents[r]) = 3
        /\ pc[r] = "y53" /\ idx[r] = 2
        /\ Len(stream[r]) = 3 /\ Len(lookups[r]) = 1

\* C18: in a run through process_with_workflow the consumer's stream only
\* grows at its end, one item per step, so the position of an item is its
\* sequence number and later items have larger ones; what the consumer already
\* holds never changes, every string the strategy yields is appended exactly
\* once, in the step that yields it, and nothing else is appended once the
\* strategy exists.
DispatcherDeliveryStep(r) ==
    entry[r] = "dynamic" =>
        /\ Len(stream'[r]) \in {Len(stream[r]), Len(stream[r]) + 1}
        /\ SubSeq(stream'[r], 1, Len(stream[r])) = stream[r]
        /\ emitted'[r] # emitted[r] =>
              /\ Len(emitted'[r]) = Len(emitted[r]) + 1
              /\ Len(stream'[r]) = Len(stream[r]) + 1
              /\ Last(stream'[r]) = Last(emitted'[r])
        /\ (stream'[r] # stream[r] /\ cls[r] # None) => emitted'[r] # emitted[r]

DispatcherKeepsEmissionOrder ==
    [][\A r \in Runs : DispatcherDeliveryStep(r)]_vars

DispatcherDeliveredWholeRun ==
    \E r \in Runs :
        /\ entry[r] = "dynamic" /\ IsParallel(r) /\ pc[r] = "closed"
        /\ Len(wf_agents[r]) = 3
        /\ Len(stream[r]) = 5 /\ Len(emitted[r]) = 5

\* ------------------------------------------------------------------------
\* The stream of a run executed alone, as a function of the run's inputs
\* ------------------------------------------------------------------------
RECURSIVE SoloSequential(_, _, _)
SoloSequential(list, directory, c) ==
    IF list = <<>> THEN <<SeqFinalMsg>>
    ELSE LET a == Head(list)
             out == SeqOutput(a, c)
         IN  IF a \in directory
             THEN <<SeqProgressMsg(a), out>> \o SoloSequential(Tail(list), directory, out)
             ELSE <<SeqProgressMsg(a), SeqWarningMsg(a)>> \o SoloSequential(Tail(list), directory, c)

RECURSIVE SoloParallel(_, _, _, _)
SoloParallel(list, directory, c, collected) ==
    IF list = <<>> THEN <<ParAggregatingMsg, ParFinalMsg(collected)>>
    ELSE LET a == Head(list)
             res == ParResult(a, c)
         IN  IF a \in directory
             THEN <<ParProgressMsg(a), res>>
                      \o SoloParallel(Tail(list), directory, c, Append(collected, res))
             ELSE <<ParProgressMsg(a)>> \o SoloParallel(Tail(list), directory, c, collected)

RECURSIVE SoloWorkers(_)
SoloWorkers(list) ==
    IF list = <<>> THEN <<>>
    ELSE <<HierExecutingMsg(Head(list)), HierResult(Head(list))>> \o SoloWorkers(Tail(list))

SoloHierarchical(list) ==
    IF list = <<>> THEN <<HierNoAgentsMsg>>
    ELSE <<HierAnalyzingMsg(list[1]), HierPlanMsg(Tail(list))>>
             \o SoloWorkers(Tail(list))
             \o <<HierSynthesizingMsg,
                  HierFinalMsg(list[1], [k \in 1..(Len(list) - 1) |-> HierResult(list[k + 1])])>>

SoloStrategy(c, list, directory, msgs) ==
    IF msgs = <<>> THEN <<>>
    ELSE CASE c = "SequentialOrchestrator"   -> SoloSequential(list, directory, LastContent(msgs))
           [] c = "ParallelOrchestrator"     -> SoloParallel(list, directory, LastContent(msgs), <<>>)
           [] c = "HierarchicalOrchestrator" -> SoloHierarchical(list)

\* the whole stream run r produces when nothing else runs
SoloStream(r) ==
    IF entry[r] = "dynamic"
    THEN IF wf_pattern[r] \in Implemented
         THEN SoloStrategy(orchestrators[wf_pattern[r]], wf_agents[r], {}, messages[r])
         ELSE <<UnsupportedMsg(wf_pattern[r])>>
    ELSE SoloStrategy(cls[r], wf_agents[r], Held(agents[r]), messages[r])

IsPrefix(s, t) == Len(s) <= Len(t) /\ SubSeq(t, 1, Len(s)) = s

\* the part of the state that belongs to run r
RunState(r) ==
    <<wf_pattern[r], wf_agents[r], messages[r], entry[r], cls[r], agents[r], pc[r], idx[r],
      content[r], results[r], stream[r], emitted[r], lookups[r], invoked[r], error[r],
      dropped[r]>>

\* C19: when two runs are interleaved step by step, every step changes the
\* state of one run only (each run has its own strategy instance, running
\* content and results), and the stream of each run is at every moment a
\* prefix of the stream the same run produces alone, and equal to it when the
\* run has ended.
RunMatchesSolo(r) ==
    HasGenerator(r) =>
        /\ IsPrefix(stream[r], SoloStream(r))
        /\ pc[r] \in {"closed", "raised"} => stream[r] = SoloStream(r)
        /\ pc[r] = "raised" => messages[r] = <<>>

OneRunPerStep ==
    \E r \in Runs : \A q \in Runs \ {r} : RunState(q)' = RunState(q)

ConcurrentRunsIndependent ==
    /\ [](\A r \in Runs : RunMatchesSolo(r))
    /\ [][OneRunPerStep]_vars

TwoRunsInterleaved ==
    /\ pc[1] = "closed" /\ pc[2] = "y87"
    /\ entry[1] = "dynamic" /\ entry[2] = "dynamic"
    /\ IsSequential(1) /\ IsParallel(2)
    /\ Len(stream[1]) = 5 /\ Len(stream[2]) = 1

\* C20: two runs of the same workflow on the same messages, begun the same
\* way against the same directory, that have both ended have ended the same
\* way with equal streams, whether one ran after the other or they were
\* interleaved.
SameRunTwice(r1, r2) ==
    /\ r1 # r2
    /\ wf_pattern[r1] = wf_pattern[r2] /\ wf_agents[r1] = wf_agents[r2]
    /\ messages[r1] = messages[r2]
    /\ entry[r1] = entry[r2] /\ agents[r1] = agents[r2]
    /\ HasGenerator(r1) /\ HasGenerator(r2)
    /\ pc[r1] \in {"closed", "raised"} /\ pc[r2] \in {"closed", "raised"}

RepeatedRunSameStream ==
    \A r1, r2 \in Runs :
        SameRunTwice(r1, r2) => (stream[r1] = stream[r2] /\ pc[r1] = pc[r2])

SameWorkflowRunTwice ==
    /\ SameRunTwice(1, 2)
    /\ IsParallel(1) /\ wf_agents[1] = <<"a", "b">> /\ Held(agents[1]) = {"a", "b"}
    /\ pc[1] = "closed" /\ Len(stream[1]) = 6

\* ========================================================================
\* A consumer that stops pulling
\* ========================================================================
Front(s) == SubSeq(s, 1, Len(s) - 1)
Range(s) == {s[k] : k \in 1..Len(s)}

\* the agents whose "processing..." / "starting..." Progress the consumer of
\* run r has received, in order
Announced(r) ==
    LET ann == SelectSeq(stream[r], IsAnnouncement)
    IN  [k \in 1..Len(ann) |-> AgentOf(ann[k])]

\* the run's generator is suspended right after a Progress of an agent
AtAnnouncement(r) == pc[r] \in {"y53", "y87"}

\* C21 as stated: once the consumer of a Sequential or Parallel run has
\* stopped pulling, the set of agents the run has looked up is exactly the
\* set of agents whose Progress event was pulled.
StoppedRunLookedUpExactlyAnnounced ==
    \A r \in Runs :
        (dropped[r] /\ (IsSequential(r) \/ IsParallel(r))) =>
            Range(lookups[r]) = Range(Announced(r))

StoppedRunFrozen ==
    \A r \in Runs : dropped[r] => (RunState(r)' = RunState(r))

StoppingTouchesOneRun ==
    \A r \in Runs :
        (~dropped[r] /\ dropped'[r]) =>
            /\ \A q \in Runs \ {r} : RunState(q)' = RunState(q)
            /\ <<lookups[r], invoked[r], stream[r], emitted[r], pc[r], agents[r]>>'
                   = <<lookups[r], invoked[r], stream[r], emitted[r], pc[r], agents[r]>>

\* C21: once the consumer of a Sequential or Parallel run has stopped pulling,
\* nothing of the run changes any more (no lookup, no invocation, no event),
\* the agents looked up are the agents whose Progress was pulled, in order,
\* without the last of them when the consumer stopped right after that
\* Progress (the lookup of an agent is done by the pull that follows its
\* Progress), every invoked agent was looked up, and the other run still gets
\* the stream it produces alone.
StoppedRunDoesNothingMore ==
    /\ [](\A r \in Runs :
            (dropped[r] /\ (IsSequential(r) \/ IsParallel(r))) =>
                /\ lookups[r] = IF AtAnnouncement(r) THEN Front(Announced(r))
                                                     ELSE Announced(r)
                /\ \A k \in 1..Len(invoked[r]) : invoked[r][k][1] \in Range(lookups[r]))
    /\ [](\A r, q \in Runs : (dropped[r] /\ q # r) => RunMatchesSolo(q))
    /\ [][StoppedRunFrozen /\ StoppingTouchesOneRun]_vars

StoppedAfterSecondProgress ==
    /\ dropped[1] /\ entry[1] = "dynamic" /\ IsSequential(1)
    /\ pc[1] = "y53" /\ Len(stream[1]) = 3
    /\ lookups[1] = <<wf_agents[1][1]>>
    /\ ~dropped[2] /\ pc[2] = "closed" /\ IsParallel(2) /\ Len(stream[2]) = 6

\* ========================================================================
\* The factory function and the dispatcher
\* ========================================================================
\* the first event of a run through the dispatcher is the unsupported-pattern Error
RefusedByDispatcher(r) ==
    stream[r] # <<>> /\ stream[r][1] = UnsupportedMsg(wf_pattern[r])

\* C22: create_orchestrator gives, for Sequential, Parallel and Hierarchical,
\* an instance of the class the dispatcher has registered for the pattern and
\* raises no ValueError; for every other pattern it raises ValueError and
\* gives no instance. The patterns it accepts are those for which a run
\* through process_with_workflow does not begin with the unsupported-pattern
\* Error.
FactoryAgreesWithDispatcher ==
    \A r \in Runs :
        /\ entry[r] = "direct" =>
              IF wf_pattern[r] \in Implemented
              THEN cls[r] = orchestrators[wf_pattern[r]] /\ error[r] # "ValueError"
              ELSE /\ cls[r] = None /\ pc[r] = "raised" /\ error[r] = "ValueError"
                   /\ stream[r] = <<>>
        /\ (entry[r] = "dynamic" /\ pc[r] # "dyn_start") =>
              (RefusedByDispatcher(r) <=> wf_pattern[r] \notin Implemented)
        /\ (entry[r] = "dynamic" /\ pc[r] # "dyn_start" /\ ~RefusedByDispatcher(r)) =>
              cls[r] = factory_orchestrators[wf_pattern[r]]

FactoryRefusedReasoner ==
    /\ entry[1] = "direct" /\ wf_pattern[1] = "reasoner"
    /\ pc[1] = "raised" /\ error[1] = "ValueError" /\ cls[1] = None

\* run r1 goes through process_with_workflow and run r2 is process_conversation
\* called on the strategy create_orchestrator returned, for the same workflow,
\* of a supported pattern, and the same messages
WrapperAndDirect(r1, r2) ==
    /\ r1 # r2
    /\ wf_pattern[r1] = wf_pattern[r2] /\ wf_agents[r1] = wf_agents[r2]
    /\ messages[r1] = messages[r2]
    /\ wf_pattern[r1] \in Implemented
    /\ entry[r1] = "dynamic" /\ pc[r1] # "dyn_start"
    /\ entry[r2] = "direct" /\ pc[r2] \notin {"created", "start"} /\ agents[r2] = EmptyDirectory

Ended(r) == pc[r] \in {"closed", "raised"}
Shorter(s, t) == IF Len(s) <= Len(t) THEN Len(s) ELSE Len(t)

\* C23: a run through process_with_workflow and a direct run of the strategy
\* that create_orchestrator returns for the same workflow and messages give
\* the same events at the same positions; the two strategies are of the same
\* class, the consumers have received equal streams whenever the two are
\* at the same point (same yield of the same iteration, or both ended), and when both runs have ended
\* they have ended the same way with equal streams.
WrapperStreamEqualsDirectStream ==
    \A r1, r2 \in Runs :
        WrapperAndDirect(r1, r2) =>
            /\ cls[r1] = cls[r2]
            /\ \A k \in 1..Shorter(stream[r1], stream[r2]) : stream[r1][k] = stream[r2][k]
            /\ (pc[r1] = pc[r2] /\ idx[r1] = idx[r2]) => (stream[r1] = stream[r2])
            /\ (Ended(r1) /\ Ended(r2)) => (pc[r1] = pc[r2] /\ error[r1] = error[r2])

WrapperAndDirectBothEnded ==
    /\ WrapperAndDirect(1, 2)
    /\ pc[1] = "closed" /\ pc[2] = "closed"
    /\ IsHierarchical(1) /\ Len(wf_agents[1]) = 2 /\ Len(stream[2]) = 6

\* ========================================================================
\* The Hierarchical strategy and the agent directory
\* ========================================================================
\* C24: a Hierarchical run looks no agent up and invokes none; given a
\* non-empty message list, its stream is at every moment a prefix of, and at
\* its end equal to, the stream computed from the agent list alone, so every
\* worker gets its "executing" Progress and its completion Partial whatever
\* the directory holds.
HierarchicalIgnoresDirectory ==
    \A r \in Runs :
        IsHierarchical(r) =>
            /\ lookups[r] = <<>> /\ invoked[r] = <<>>
            /\ HasInput(r) =>
                  /\ IsPrefix(stream[r], SoloHierarchical(wf_agents[r]))
                  /\ HierDone(r) => stream[r] = SoloHierarchical(wf_agents[r])
                  /\ (HierDone(r) /\ wf_agents[r] # <<>>) =>
                        \A k \in 1..Len(Workers(wf_agents[r])) :
                            /\ stream[r][2 * k + 1] = HierExecutingMsg(wf_agents[r][k + 1])
                            /\ stream[r][2 * k + 2] = HierResult(wf_agents[r][k + 1])

\* coordinator "a" and worker "c" are in the directory, worker "b" is not
HierarchicalRanWithPartialDirectory ==
    /\ IsHierarchical(1) /\ pc[1] = "closed"
    /\ wf_agents[1] = <<"a", "b", "c">> /\ Held(agents[1]) = {"a", "c"}
    /\ Len(stream[1]) = 8

\* ========================================================================
\* WorkflowValidator
\* ========================================================================
\* C25 as stated: validate_workflow reports the Hierarchical error for every
\* workflow of pattern Hierarchical with fewer than 2 agents, and for no other
\* workflow.
ValidatorReportsSmallHierarchical ==
    val.done =>
        ((HierarchicalAgentsError \in Range(val.errors))
            <=> (val.workflow.pattern.value = "hierarchical" /\ Len(val.workflow.agents) < 2))

\* ========================================================================
\* What a run leaves alone
\* ========================================================================
\* the workflow descriptor, the message list and the directory of run r
RunInputs(r) == <<wf_pattern[r], wf_agents[r], messages[r], agents[r]>>

\* C26: from the moment the generator of a run exists, no step (a pull that
\* yields, ends or fails the run, or the consumer letting go of it) changes
\* the agent list or the pattern of the workflow descriptor, the caller's
\* message list, or the directory of the strategy; so after a complete, a
\* failed and an abandoned run they are what they were before it.
RunLeavesInputsUnchanged ==
    [][\A r \in Runs :
          ((Suspended(r) \/ Ended(r)) /\ (entry[r] = "direct" \/ cls[r] # None))
              => (RunInputs(r)' = RunInputs(r))]_vars
    /\ [][\A r \in Runs :
          (entry[r] = "dynamic" /\ Suspended(r) /\ cls[r] = None)
              => /\ <<wf_pattern[r], wf_agents[r], messages[r]>>'
                     = <<wf_pattern[r], wf_agents[r], messages[r]>>
                 /\ agents'[r] = EmptyDirectory]_vars

SequentialRanOnPopulatedDirectory ==
    /\ IsSequential(1) /\ pc[1] = "closed"
    /\ wf_agents[1] = <<"a", "b", "a">> /\ Held(agents[1]) = {"a", "c"}
    /\ Len(messages[1]) = 2 /\ Len(invoked[1]) = 2

\* ========================================================================
\* AgentRegistry
\* ========================================================================
\* what the register_agent and delete_agent calls of a log say about a name:
\* the configuration of the last register_agent for it when no delete_agent
\* for it came later, else None
RECURSIVE LastRegistered(_, _)
LastRegistered(log, name) ==
    IF log = <<>> THEN NoAgent
    ELSE LET c == log[Len(log)]
         IN  IF c.name = name /\ c.op = "register_agent" THEN c.agent
             ELSE IF c.name = name /\ c.op = "delete_agent" THEN NoAgent
             ELSE LastRegistered(Front(log), name)

\* the same, with the agents loaded at construction counted as registered:
\* the configuration last registered for the name by a register_agent call or,
\* at construction, by the load of a file that holds an agent of that name,
\* when no delete_agent for it came later, else None
RECURSIVE LastKnown(_, _)
LastKnown(log, name) ==
    IF log = <<>> THEN NoAgent
    ELSE LET c == log[Len(log)]
         IN  IF c.name = name /\ c.op = "register_agent" THEN c.agent
             ELSE IF c.op = "_load_agents" /\ c.agent # BadYaml /\ c.agent.name = name
                  THEN c.agent
             ELSE IF c.name = name /\ c.op = "delete_agent" THEN NoAgent
             ELSE LastKnown(Front(log), name)

Before(k) == SubSeq(calls, 1, k - 1)
AlwaysSaved == \A k \in 1..Len(calls) : calls[k].op = "register_agent" => calls[k].save

\* the log holds no save_agent call made on its own
OnlyRegisterAndDelete == \A k \in 1..Len(calls) : calls[k].op # "save_agent"

\* the files that the constructor found for a name: the files named after it
\* and the files that hold an agent of that name
FoundFor(name) ==
    {k \in 1..Len(calls) :
        /\ calls[k].op = "_load_agents"
        /\ calls[k].name = name \/ calls[k].agent.name = name}

\* at construction the name had no file, or one file, <name>.yaml holding the
\* agent of that name, as save_agent writes it
OwnFileOrNone(name) ==
    /\ Cardinality(FoundFor(name)) <= 1
    /\ \A k \in FoundFor(name) : calls[k].name = name /\ calls[k].agent.name = name

\* every register_agent of the name saved, and save_agent was not called for
\* the name on its own
SavedByRegisterOnly(name) ==
    \A k \in 1..Len(calls) :
        calls[k].name = name =>
            /\ calls[k].op = "register_agent" => calls[k].save
            /\ calls[k].op # "save_agent"

\* C27 as stated: after any sequence of register_agent, delete_agent and
\* get_agent calls, the registry holds for every name the configuration of
\* its last register_agent not followed by a delete_agent and None otherwise;
\* every get_agent returned that; every delete_agent returned True exactly
\* when a register_agent of the name had not been followed by a delete_agent;
\* and when every register_agent saved, the file of a name exists exactly when
\* the name is registered. Violated by a registry constructed over a directory
\* that holds a.yaml: get_agent("a") returns the loaded configuration although
\* no register_agent was called.
RegistryFollowsCalls ==
    /\ \A name \in RegistryNames :
          AgentsGet(registry, name) = LastRegistered(calls, name)
    /\ \A k \in 1..Len(calls) :
          /\ calls[k].op = "get_agent" =>
                calls[k].ret = LastRegistered(Before(k), calls[k].name)
          /\ calls[k].op = "delete_agent" =>
                (calls[k].ret <=> LastRegistered(Before(k), calls[k].name) # NoAgent)
    /\ (OnlyRegisterAndDelete /\ AlwaysSaved) => DOMAIN files = DOMAIN registry

\* C27, amended: a registry is constructed over the *.yaml files of its
\* directory, and every file that loads registers the agent it holds. After
\* any sequence of calls, the registry holds for every name the configuration
\* last registered for it, by a register_agent call or by the load at
\* construction, when no delete_agent of the name followed, and nothing
\* otherwise; every get_agent returned that configuration or None; every
\* delete_agent returned True exactly when the name was registered at the
\* call. For a name that at construction had no file or only its own file
\* <name>.yaml, and for which save_agent was not called on its own, a file
\* never exists while the name is not registered; and when every
\* register_agent of the name saved, the file exists exactly when the name is
\* registered and holds the registered configuration.
RegistryFollowsLoadsAndCalls ==
    /\ \A name \in RegistryNames :
          AgentsGet(registry, name) = LastKnown(calls, name)
    /\ DOMAIN registry \subseteq RegistryNames
    /\ \A k \in 1..Len(calls) :
          /\ calls[k].op = "get_agent" =>
                calls[k].ret = LastKnown(Before(k), calls[k].name)
          /\ calls[k].op = "delete_agent" =>
                (calls[k].ret <=> LastKnown(Before(k), calls[k].name) # NoAgent)
    /\ \A name \in RegistryNames :
          (OwnFileOrNone(name) /\ \A k \in 1..Len(calls) :
                                     calls[k].name = name => calls[k].op # "save_agent")
              => (name \in DOMAIN files => name \in DOMAIN registry)
    /\ \A name \in RegistryNames :
          (OwnFileOrNone(name) /\ SavedByRegisterOnly(name))
              => /\ name \in DOMAIN files <=> name \in DOMAIN registry
                 /\ name \in DOMAIN files => files[name] = registry[name]

\* loaded from a.yaml at construction, then replaced, deleted, and deleted
\* again
LoadedReplacedDeleted ==
    /\ Len(calls) = 4 /\ AlwaysSaved /\ OnlyRegisterAndDelete
    /\ calls[1].op = "_load_agents" /\ calls[1].name = "a" /\ calls[1].agent.name = "a"
    /\ calls[2].op = "register_agent" /\ calls[2].name = "a" /\ calls[2].agent # calls[1].agent
    /\ calls[3].op = "delete_agent" /\ calls[3].name = "a" /\ calls[3].ret
    /\ calls[4].op = "delete_agent" /\ calls[4].name = "a" /\ ~calls[4].ret
    /\ registry = EmptyRegistry /\ files = EmptyRegistry

\* ========================================================================
\* The directory of a strategy created by the dispatcher
\* ========================================================================
PositionsOf(s, Test(_)) == {k \in 1..Len(s) : Test(s[k])}
AllRegistered(r) == \A k \in 1..Len(wf_agents[r]) : wf_agents[r][k] \in DOMAIN registry

\* C28 as stated: the strategy that process_with_workflow creates has, in its
\* directory, the agents its workflow references, so a Sequential or Parallel
\* run of a workflow whose agents are all registered ends with one Partial per
\* agent and no Warning.
DispatcherStrategySeesRegisteredAgents ==
    \A r \in Runs :
        (entry[r] = "dynamic" /\ cls[r] # None /\ AllRegistered(r) /\ HasInput(r)) =>
            /\ Range(wf_agents[r]) \subseteq Held(agents[r])
            /\ (SeqDone(r) \/ ParDone(r)) =>
                  /\ Cardinality(PositionsOf(stream[r], IsPartial)) = Len(wf_agents[r])
                  /\ PositionsOf(stream[r], IsWarning) = {}

\* ========================================================================
\* Shape of the Sequential and Parallel streams
\* ========================================================================
Count(s, Test(_)) == Cardinality(PositionsOf(s, Test))
PresentCount(r) == Cardinality({k \in 1..Len(wf_agents[r]) : Present(r, k)})

\* C29: in a Sequential run over N agents on a non-empty message list, event
\* 2i-1 is the Progress of agent i and event 2i is the Partial of agent i when
\* the directory holds an agent for it and the Warning about agent i when it
\* does not (the name is missing, or what is stored for it is None), for
\* every i up to N, and event 2N+1 is the Final; there is no further event.
\* A run that has yielded its last event therefore has 2N+1 events: N
\* Progress, as many Partials as positions of present agents, a Warning for
\* each other position, and one Final.
SequentialStreamShape ==
    \A r \in Runs :
        (IsSequential(r) /\ HasInput(r)) =>
            LET N == Len(wf_agents[r])
                s == stream[r]
            IN  /\ Len(s) <= 2 * N + 1
                /\ \A k \in 1..Len(s) :
                      IF k = 2 * N + 1 THEN IsFinal(s[k])
                      ELSE IF k % 2 = 1
                      THEN IsAnnouncement(s[k]) /\ AgentOf(s[k]) = wf_agents[r][(k + 1) \div 2]
                      ELSE /\ IF Present(r, k \div 2) THEN IsPartial(s[k]) ELSE IsWarning(s[k])
                           /\ AgentOf(s[k]) = wf_agents[r][k \div 2]
                /\ SeqDone(r) =>
                      /\ Len(s) = 2 * N + 1
                      /\ Count(s, IsProgress) = N
                      /\ Count(s, IsPartial) = PresentCount(r)
                      /\ Count(s, IsWarning) = N - PresentCount(r)
                      /\ Count(s, IsFinal) = 1

SequentialThreeAgentsTwoPresent ==
    /\ IsSequential(1) /\ pc[1] = "closed"
    /\ wf_agents[1] = <<"a", "b", "c">>
    /\ agents[1] = [n \in {"a", "b", "c"} |-> IF n = "b" THEN None ELSE AgentObject]
    /\ Len(stream[1]) = 7 /\ IsWarning(stream[1][4]) /\ IsPartial(stream[1][6])

\* one "starting..." Progress per listed agent, in list order
ParAnnouncements(list) == [k \in 1..Len(list) |-> ParProgressMsg(list[k])]

\* C30: a Parallel run on a non-empty message list never fails; once it has
\* yielded its last event, the number of its Partials and the number of
\* entries of its aggregate both equal the number of list positions whose
\* agent is in the directory, and its last event is the Final built from that
\* aggregate. When no listed agent is in the directory (the empty list
\* included) the whole stream is the Progress of every listed agent, the
\* "Aggregating" event, and the Final with an empty aggregate.
ParallelCompletesWithoutAgents ==
    \A r \in Runs :
        (IsParallel(r) /\ HasInput(r)) =>
            /\ pc[r] # "raised"
            /\ ParDone(r) =>
                  /\ Count(stream[r], IsPartial) = PresentCount(r)
                  /\ Len(results[r]) = PresentCount(r)
                  /\ Last(stream[r]) = ParFinalMsg(results[r])
                  /\ Count(stream[r], IsAggregating) = 1
                  /\ Count(stream[r], IsStarting) = Len(wf_agents[r])
            /\ (ParDone(r) /\ PresentCount(r) = 0) =>
                  stream[r] = ParAnnouncements(wf_agents[r])
                                  \o <<ParAggregatingMsg, <<"Final aggregated result:\n">>>>

ParallelNoAgentPresentRunEnded ==
    /\ IsParallel(1) /\ pc[1] = "closed" /\ entry[1] = "direct"
    /\ wf_agents[1] = <<"a", "b">> /\ Held(agents[1]) = {"c"}
    /\ Len(stream[1]) = 4 /\ results[1] = <<>>

====
